---- MODULE Spec2Model ----
(***************************************************************************)
(* Model of LocalRender.createTask (src/src/plantuml/renders/local.ts):    *)
(* the preflight checks, the synchronous reduce loop that spawns one       *)
(* engine process per page, the promise chain that drains the pages in     *)
(* order, the emf second stage and the settling of the task's promise.     *)
(***************************************************************************)
EXTENDS Integers, Sequences, FiniteSets, TLC

\* ------------------------------------------------------------------------
\* Bounds of the model
\* ------------------------------------------------------------------------
MaxPages == 3

\* ------------------------------------------------------------------------
\* Values
\* ------------------------------------------------------------------------
Undefined == "undefined"

\* formats() : the formats used as inputs of render(); "emf" is the only
\* format the code treats in two stages, "png" stands for every other one.
formats == {"png", "svg", "emf"}

\* A path string is a record: its directory, the segments of its base name
\* between dots ("d.emf" is <<"d","emf">>, ".svg" is <<"","svg">>, "" is
\* <<"">>), and the page tag addFileIndex put on its name (0: none).
\* def = FALSE is the JavaScript value undefined.
UndefinedPath == [def |-> FALSE, dir |-> "", segs |-> <<"">>, page |-> 0]
EmptyPath == [def |-> TRUE, dir |-> "", segs |-> <<"">>, page |-> 0]
EmfPath == [def |-> TRUE, dir |-> "out", segs |-> <<"d", "emf">>, page |-> 0]
PngPath == [def |-> TRUE, dir |-> "out", segs |-> <<"d", "png">>, page |-> 0]

\* the destinations a caller passes as savePath
SavePaths == {UndefinedPath, EmptyPath, EmfPath, PngPath}

\* JavaScript truthiness of a string-or-undefined value
Truthy(p) == p.def /\ p # EmptyPath

\* path.parse: the extension starts at the last dot of the base name, unless
\* that dot is the first character of the base name.
HasExt(p) == Len(p.segs) >= 2 /\ ~(Len(p.segs) = 2 /\ p.segs[1] = "")

PathParse(p) ==
    [dir |-> p.dir,
     name |-> IF HasExt(p) THEN SubSeq(p.segs, 1, Len(p.segs) - 1) ELSE p.segs,
     ext |-> IF HasExt(p) THEN p.segs[Len(p.segs)] ELSE "",
     page |-> p.page]

\* path.format({dir, name, ext})
PathFormat(parsed, ext) ==
    [def |-> TRUE, dir |-> parsed.dir, segs |-> Append(parsed.name, ext),
     page |-> parsed.page]

\* addFileIndex(fileName, index, count): the per-page file name
addFileIndex(fileName, i, count) ==
    IF count = 1 THEN fileName ELSE [fileName EXCEPT !.page = i + 1]

\* the extension a path carries
ExtOf(p) == PathParse(p).ext

\* localize(n, null, args...)
localize(n, args) == [msg |-> n, args |-> args]

title == "title"
extensionPath == "extensionPath"

\* what page i's engine process produces
Bytes(i) == [page |-> i, data |-> "stdout"]
EmptyBuffer == [page |-> -1, data |-> ""]
StdErr(i) == [page |-> i, data |-> "stderr"]
Partial(i) == [page |-> i, data |-> "partial"]

\* processWrapper(process, savePath2): what it resolves with, and what it
\* rejects with
AdapterOut(i, dest) == IF Truthy(dest) THEN EmptyBuffer ELSE Bytes(i)
AdapterErr(i) == [error |-> StdErr(i), out |-> Partial(i)]

\* the rejection values of the chain
RenderError(i) ==
    [kind |-> "RenderError",
     error |-> localize(10, <<title, AdapterErr(i).error>>),
     out |-> AdapterErr(i).out, page |-> i]
TypeError(i) ==
    [kind |-> "TypeError", error |-> localize(0, <<>>), out |-> EmptyBuffer,
     page |-> i]
ExecError(i) ==
    [kind |-> "ExecFileSyncError", error |-> localize(0, <<>>),
     out |-> EmptyBuffer, page |-> i]
ConfigError(n) ==
    [kind |-> "string",
     error |-> localize(n, IF n = 6 THEN <<extensionPath>> ELSE <<>>),
     out |-> EmptyBuffer, page |-> -1]
NoError == [kind |-> "none", error |-> localize(0, <<>>), out |-> EmptyBuffer,
            page |-> -1]

VARIABLES
    pageCount,   \* diagram.pageCount
    hasContent,  \* diagram.content is non-empty
    javaSet,     \* config.java is set
    jarExists,   \* fs.existsSync(config.jar(...))
    taskType,    \* "-pipe" (render) or "-pipemap" (getMapData)
    reqFormat,   \* the format argument the caller passed
    reqSavePath, \* the savePath argument the caller passed
    format,      \* createTask's parameter format, reassigned in the loop
    savePath,    \* createTask's parameter savePath, reassigned in the loop
    pc,          \* position of createTask: start, returnedEarly (a preflight
                 \* check failed), loop, returned, threw
    index,       \* the reduce loop's index
    origFormat,  \* origFormat of each iteration's closure
    processes,   \* the task's process list
    spawnArgs,   \* the jar arguments each engine process was started with
    killed,      \* pages whose process has process.killed = true
    procState,   \* per page: none, running, ok, err
    link,        \* the chain link whose handlers run next
    chainState,  \* fulfilled, rejected, awaitAdapter, stage2, blocked
    chainErr,    \* the rejection reason travelling down the chain
    buffers,     \* the artifact list, or null
    written,     \* pages whose process got diagram.content on stdin
    awaited,     \* pages whose processWrapper call was made
    dest,        \* savePath2 of each processWrapper call
    consumed,    \* pages whose processWrapper call resolved
    failed,      \* pages whose processWrapper call rejected
    converters,  \* inkscape invocations, in order
    convFailed,  \* pages whose execFileSync call threw
    asyncConv,   \* per page, the inkscape process started with spawn
    skipped,     \* pages whose link found process.killed set
    staged,      \* pages whose handler after the push has run
    outcome,     \* the task's promise
    settles      \* how often the task's promise was settled

vars == <<pageCount, hasContent, javaSet, jarExists, taskType, reqFormat,
          reqSavePath, format, savePath, pc, index, origFormat, processes,
          spawnArgs, killed, procState, link, chainState, chainErr, buffers,
          written, awaited, dest, consumed, failed, converters, convFailed,
          asyncConv, skipped, staged, outcome, settles>>

inputs == <<pageCount, hasContent, javaSet, jarExists, taskType, reqFormat,
            reqSavePath>>

Pages == 0 .. pageCount - 1

Pending ==
    [kind |-> "pending", list |-> <<>>, isNull |-> FALSE, err |-> NoError]
Resolved(bufs) ==
    [kind |-> "resolved", list |-> bufs.list, isNull |-> bufs.isNull,
     err |-> NoError]
Rejected(err) ==
    [kind |-> "rejected", list |-> <<>>, isNull |-> FALSE, err |-> err]
\* NullBuffers as a reset to the empty list: buffers = []
NullBuffers_Emptied == [isNull |-> FALSE, list |-> <<>>]

\* buffers = null
NullBuffers == [isNull |-> TRUE, list |-> <<>>]

\* render(diagram, format, savePath) and getMapData(diagram, savePath) are
\* called on a diagram of 1..MaxPages pages.
Init ==
    /\ pageCount \in 1 .. MaxPages
    /\ hasContent \in BOOLEAN
    /\ javaSet \in BOOLEAN
    /\ jarExists \in BOOLEAN
    /\ taskType \in {"-pipe", "-pipemap"}
    /\ reqFormat \in (IF taskType = "-pipe" THEN formats ELSE {Undefined})
    /\ reqSavePath \in SavePaths
    /\ format = reqFormat
    /\ savePath = reqSavePath
    /\ pc = "start"
    /\ index = 0
    /\ origFormat = <<>>
    /\ processes = <<>>
    /\ spawnArgs = <<>>
    /\ killed = {}
    /\ procState = [i \in 0 .. MaxPages - 1 |-> "none"]
    /\ link = 0
    /\ chainState = "fulfilled"
    /\ chainErr = NoError
    /\ buffers = [isNull |-> FALSE, list |-> <<>>]
    /\ written = {}
    /\ awaited = {}
    /\ dest = [i \in 0 .. MaxPages - 1 |-> UndefinedPath]
    /\ consumed = {}
    /\ failed = {}
    /\ converters = <<>>
    /\ convFailed = {}
    /\ asyncConv = [i \in 0 .. MaxPages - 1 |-> "none"]
    /\ skipped = {}
    /\ staged = {}
    /\ outcome = Pending
    /\ settles = 0

\* ------------------------------------------------------------------------
\* createTask, synchronous part
\* ------------------------------------------------------------------------

\* PreflightError without the check of the engine bundle
PreflightError_NoJarCheck ==
    IF ~javaSet THEN 5 ELSE 0

\* the two preflight checks: the number of the message the task rejects
\* with, or 0 when both pass
PreflightError ==
    IF ~javaSet THEN 5 ELSE IF ~jarExists THEN 6 ELSE 0

Preflight ==
    /\ pc = "start"
    /\ IF PreflightError # 0
         THEN /\ outcome' = Rejected(ConfigError(PreflightError))
              /\ settles' = settles + 1
              /\ pc' = "returnedEarly"
         ELSE /\ pc' = "loop"
              /\ UNCHANGED <<outcome, settles>>
    /\ UNCHANGED <<inputs, skipped, staged,
                   format, savePath, index, origFormat, processes,
                   spawnArgs, killed, procState, link, chainState, chainErr,
                   buffers, written, awaited, dest, consumed, failed,
                   converters, convFailed, asyncConv>>

\* RecordProcess without the push
RecordProcess_NoPush(procs, i) == procs

\* processes.push(process)
RecordProcess(procs, i) == Append(procs, i)

\* EngineArgs with the format the caller asked for
EngineArgs_RequestedFormat(i, fmt) ==
    [imageindex |-> i, pipe |-> taskType,
     t |-> IF reqFormat # Undefined THEN reqFormat ELSE "none"]

\* the jar arguments of page i's engine process
EngineArgs(i, fmt) ==
    [imageindex |-> i, pipe |-> taskType,
     t |-> IF fmt # Undefined THEN fmt ELSE "none"]

\* One iteration of the reduce callback: the emf swap of the parameters
\* format and savePath, then the spawn of page index's engine process.
\* path.parse(undefined) throws, which ends createTask.
Iterate ==
    /\ pc = "loop"
    /\ index < pageCount
    /\ IF format = "emf" /\ ~savePath.def
         THEN /\ pc' = "threw"
              /\ UNCHANGED <<format, savePath, index, origFormat, processes,
                             spawnArgs, procState>>
         ELSE /\ origFormat' = Append(origFormat, format)
              /\ format' = IF format = "emf" THEN "svg" ELSE format
              /\ savePath' = IF format = "emf"
                               THEN PathFormat(PathParse(savePath), "svg")
                               ELSE savePath
              /\ spawnArgs' = Append(spawnArgs, EngineArgs(index, format'))
              /\ processes' = RecordProcess(processes, index)
              /\ procState' = [procState EXCEPT ![index] = "running"]
              /\ index' = index + 1
              /\ pc' = pc
    /\ UNCHANGED <<inputs, skipped, staged,
                   killed, link, chainState, chainErr, buffers,
                   written, awaited, dest, consumed, failed, converters,
                   convFailed, asyncConv, outcome, settles>>

\* the reduce is over, createTask returns the task
ReturnTask ==
    /\ pc = "loop"
    /\ index = pageCount
    /\ pc' = "returned"
    /\ UNCHANGED <<inputs, skipped, staged,
                   format, savePath, index, origFormat, processes,
                   spawnArgs, killed, procState, link, chainState, chainErr,
                   buffers, written, awaited, dest, consumed, failed,
                   converters, convFailed, asyncConv, outcome, settles>>

\* ------------------------------------------------------------------------
\* The environment: the caller and the external processes
\* ------------------------------------------------------------------------

\* the caller kills a process of the task's process list
Kill(k) ==
    /\ pc = "returned"
    /\ chainState # "blocked"
    /\ k \in 1 .. Len(processes)
    /\ processes[k] \notin killed
    /\ killed' = killed \cup {processes[k]}
    /\ UNCHANGED <<inputs, skipped, staged,
                   format, savePath, pc, index, origFormat, processes,
                   spawnArgs, procState, link, chainState, chainErr, buffers,
                   written, awaited, dest, consumed, failed, converters,
                   convFailed, asyncConv, outcome, settles>>

\* page i's engine process ends, in any order, well or badly
ProcExit(i, ok) ==
    /\ pc = "returned"
    /\ i \in Pages
    /\ procState[i] = "running"
    /\ procState' = [procState EXCEPT ![i] = IF ok THEN "ok" ELSE "err"]
    /\ UNCHANGED <<inputs, skipped, staged,
                   format, savePath, pc, index, origFormat, processes,
                   spawnArgs, killed, link, chainState, chainErr, buffers,
                   written, awaited, dest, consumed, failed, converters,
                   convFailed, asyncConv, outcome, settles>>

\* the inkscape process started with spawn ends; nothing listens to it
AsyncConvExit(i, ok) ==
    /\ i \in Pages
    /\ asyncConv[i] = "running"
    /\ asyncConv' = [asyncConv EXCEPT ![i] = IF ok THEN "ok" ELSE "err"]
    /\ UNCHANGED <<inputs, skipped, staged,
                   format, savePath, pc, index, origFormat, processes,
                   spawnArgs, killed, procState, link, chainState, chainErr,
                   buffers, written, awaited, dest, consumed, failed,
                   converters, convFailed, outcome, settles>>

\* ------------------------------------------------------------------------
\* The chain
\* ------------------------------------------------------------------------

\* savePath2 of page i
SavePath2(i) ==
    IF Truthy(savePath) THEN addFileIndex(savePath, i, pageCount)
    ELSE EmptyPath

\* The fulfilment handler of link i: the killed check, the write of the
\* diagram's content and the call of processWrapper.
Drain(i) ==
    /\ pc = "returned"
    /\ i \in Pages
    /\ link = i
    /\ chainState = "fulfilled"
    /\ IF i \in killed
         THEN /\ buffers' = NullBuffers
              /\ skipped' = skipped \cup {i}
              /\ link' = i + 1
              /\ UNCHANGED <<chainState, written, awaited, dest>>
         ELSE /\ written' = IF hasContent THEN written \cup {i} ELSE written
              /\ dest' = [dest EXCEPT ![i] = SavePath2(i)]
              /\ awaited' = awaited \cup {i}
              /\ chainState' = "awaitAdapter"
              /\ UNCHANGED <<buffers, link, skipped>>
    /\ UNCHANGED <<inputs, staged,
                   format, savePath, pc, index, origFormat, processes,
                   spawnArgs, killed, procState, chainErr, consumed, failed,
                   converters, convFailed, asyncConv, outcome, settles>>

\* PushStdout with the push left out for a killed process
PushStdout_NotIfKilled(list, stdout) ==
    IF link \in killed THEN list ELSE Append(list, stdout)

\* buffers.push(stdout)
PushStdout(list, stdout) == Append(list, stdout)

\* processWrapper resolves: stdout => buffers.push(stdout), which throws a
\* TypeError when buffers is null.
AdapterResolve(i) ==
    /\ i \in Pages
    /\ link = i
    /\ chainState = "awaitAdapter"
    /\ procState[i] = "ok"
    /\ consumed' = consumed \cup {i}
    /\ IF buffers.isNull
         THEN /\ chainState' = "rejected"
              /\ chainErr' = TypeError(i)
              /\ link' = i + 1
              /\ UNCHANGED buffers
         ELSE /\ buffers' = [buffers EXCEPT
                               !.list = PushStdout(@, AdapterOut(i, dest[i]))]
              /\ chainState' = "stage2"
              /\ UNCHANGED <<chainErr, link>>
    /\ UNCHANGED <<inputs, skipped, staged,
                   format, savePath, pc, index, origFormat, processes,
                   spawnArgs, killed, procState, written, awaited, dest,
                   failed, converters, convFailed, asyncConv, outcome,
                   settles>>

\* AdapterReject with a timeout: it also rejects while the process runs
AdapterReject_Timeout(i) ==
    /\ i \in Pages
    /\ link = i
    /\ chainState = "awaitAdapter"
    /\ procState[i] \in {"err", "running"}
    /\ failed' = failed \cup {i}
    /\ chainState' = "rejected"
    /\ chainErr' = RenderError(i)
    /\ link' = i + 1
    /\ UNCHANGED <<inputs, skipped, staged,
                   format, savePath, pc, index, origFormat, processes,
                   spawnArgs, killed, procState, buffers, written, awaited,
                   dest, consumed, converters, convFailed, asyncConv, outcome,
                   settles>>

\* AdapterReject with the processes of the later pages killed
AdapterReject_KillsRest(i) ==
    /\ i \in Pages
    /\ link = i
    /\ chainState = "awaitAdapter"
    /\ procState[i] = "err"
    /\ failed' = failed \cup {i}
    /\ chainState' = "rejected"
    /\ chainErr' = RenderError(i)
    /\ link' = i + 1
    /\ killed' = killed \cup {j \in Pages : j > i}
    /\ UNCHANGED <<inputs, skipped, staged,
                   format, savePath, pc, index, origFormat, processes,
                   spawnArgs, procState, buffers, written, awaited,
                   dest, consumed, converters, convFailed, asyncConv, outcome,
                   settles>>

\* processWrapper rejects: err => Promise.reject(<RenderError>{...})
AdapterReject(i) ==
    /\ i \in Pages
    /\ link = i
    /\ chainState = "awaitAdapter"
    /\ procState[i] = "err"
    /\ failed' = failed \cup {i}
    /\ chainState' = "rejected"
    /\ chainErr' = RenderError(i)
    /\ link' = i + 1
    /\ UNCHANGED <<inputs, skipped, staged,
                   format, savePath, pc, index, origFormat, processes,
                   spawnArgs, killed, procState, buffers, written, awaited,
                   dest, consumed, converters, convFailed, asyncConv, outcome,
                   settles>>

\* the argument vector of inkscape for page i
InkscapeParams(i) ==
    [gui |-> "--without-gui",
     exportEmf |-> PathFormat(PathParse(dest[i]), "emf"),
     input |-> dest[i]]

\* ExecFileSync with the exception swallowed
ExecFileSync_Swallowed(ok, i) ==
    [state |-> "fulfilled", err |-> chainErr]

\* execFileSync returns, or throws when inkscape fails: how the link's
\* promise settles
ExecFileSync(ok, i) ==
    IF ok THEN [state |-> "fulfilled", err |-> chainErr]
    ELSE [state |-> "rejected", err |-> ExecError(i)]

\* InkscapeRuns without the spawn: inkscape is run by execFileSync only
InkscapeRuns_Once(i) ==
    << [page |-> i, how |-> "execFileSync", params |-> InkscapeParams(i)] >>

\* the inkscape invocations of page i's handler: child_process.spawn, then
\* child_process.execFileSync, with the same params
InkscapeRuns(i) ==
    << [page |-> i, how |-> "spawn", params |-> InkscapeParams(i)],
       [page |-> i, how |-> "execFileSync", params |-> InkscapeParams(i)] >>

\* SpawnInkscape with the handle pushed to the task's process list
SpawnInkscape_Recorded(procs, i) == Append(procs, pageCount + i)

\* let process = child_process.spawn(inkscape, params): the handle stays in
\* a local variable of the handler, the task's process list is not touched
SpawnInkscape(procs, i) == procs

\* The handler after the push: for origFormat "emf", inkscape is started
\* with spawn, and then run again with execFileSync.
SecondStage(i) ==
    /\ i \in Pages
    /\ link = i
    /\ chainState = "stage2"
    /\ IF origFormat[i + 1] = "emf"
         THEN \E ok \in BOOLEAN :
              /\ converters' = converters \o InkscapeRuns(i)
              /\ processes' = SpawnInkscape(processes, i)
              /\ asyncConv' = [asyncConv EXCEPT ![i] = "running"]
              /\ convFailed' = IF ok THEN convFailed ELSE convFailed \cup {i}
              /\ chainState' = ExecFileSync(ok, i).state
              /\ chainErr' = ExecFileSync(ok, i).err
         ELSE /\ chainState' = "fulfilled"
              /\ UNCHANGED <<converters, processes, asyncConv, convFailed,
                             chainErr>>
    /\ link' = i + 1
    /\ staged' = staged \cup {i}
    /\ UNCHANGED <<inputs, skipped, format, savePath, pc, index, origFormat,
                   spawnArgs, killed, procState, buffers, written, awaited,
                   dest, consumed, failed, outcome, settles>>

\* execFileSync is called without a timeout: when inkscape never ends, the
\* call never returns, and the thread that runs the handlers (and the
\* caller) stays blocked in it.
ExecFileSyncHangs(i) ==
    /\ i \in Pages
    /\ link = i
    /\ chainState = "stage2"
    /\ origFormat[i + 1] = "emf"
    /\ converters' = converters \o InkscapeRuns(i)
    /\ processes' = SpawnInkscape(processes, i)
    /\ asyncConv' = [asyncConv EXCEPT ![i] = "running"]
    /\ chainState' = "blocked"
    /\ UNCHANGED <<inputs, skipped, staged, format, savePath, pc, index,
                   origFormat, spawnArgs, killed, procState, link, chainErr,
                   buffers, written, awaited, dest, consumed, failed,
                   convFailed, outcome, settles>>

\* Propagate with the error swallowed: err => undefined
Propagate_Swallowed(i) ==
    /\ pc = "returned"
    /\ i \in Pages
    /\ link = i
    /\ chainState = "rejected"
    /\ chainState' = "fulfilled"
    /\ link' = i + 1
    /\ UNCHANGED <<inputs, skipped, staged,
                   format, savePath, pc, index, origFormat, processes,
                   spawnArgs, killed, procState, chainErr, buffers,
                   written, awaited, dest, consumed, failed, converters,
                   convFailed, asyncConv, outcome, settles>>

\* The rejection handler of link i: err => Promise.reject(err)
Propagate(i) ==
    /\ pc = "returned"
    /\ i \in Pages
    /\ link = i
    /\ chainState = "rejected"
    /\ link' = i + 1
    /\ UNCHANGED <<inputs, skipped, staged,
                   format, savePath, pc, index, origFormat, processes,
                   spawnArgs, killed, procState, chainState, chainErr, buffers,
                   written, awaited, dest, consumed, failed, converters,
                   convFailed, asyncConv, outcome, settles>>

\* pms.then(() => resolve(buffers), err => reject(err))
Settle ==
    /\ pc = "returned"
    /\ link = pageCount
    /\ outcome.kind = "pending"
    /\ chainState \in {"fulfilled", "rejected"}
    /\ outcome' = IF chainState = "fulfilled" THEN Resolved(buffers)
                  ELSE Rejected(chainErr)
    /\ settles' = settles + 1
    /\ UNCHANGED <<inputs, skipped, staged,
                   format, savePath, pc, index, origFormat, processes,
                   spawnArgs, killed, procState, link, chainState, chainErr,
                   buffers, written, awaited, dest, consumed, failed,
                   converters, convFailed, asyncConv>>

Next ==
    \/ Preflight
    \/ Iterate
    \/ ReturnTask
    \/ \E k \in 1 .. MaxPages : Kill(k)
    \/ \E i \in 0 .. MaxPages - 1, ok \in BOOLEAN : ProcExit(i, ok)
    \/ \E i \in 0 .. MaxPages - 1, ok \in BOOLEAN : AsyncConvExit(i, ok)
    \/ \E i \in 0 .. MaxPages - 1 : Drain(i)
    \/ \E i \in 0 .. MaxPages - 1 : AdapterResolve(i)
    \/ \E i \in 0 .. MaxPages - 1 : AdapterReject(i)
    \/ \E i \in 0 .. MaxPages - 1 : SecondStage(i)
    \/ \E i \in 0 .. MaxPages - 1 : ExecFileSyncHangs(i)
    \/ \E i \in 0 .. MaxPages - 1 : Propagate(i)
    \/ Settle

Spec == Init /\ [][Next]_vars

\* The steps of the program itself: createTask and the handlers of the
\* chain. The event loop runs a handler that is ready; nothing makes a
\* process end, the caller kill, or a blocked execFileSync return.
Handlers ==
    \/ Preflight
    \/ Iterate
    \/ ReturnTask
    \/ \E i \in 0 .. MaxPages - 1 : Drain(i)
    \/ \E i \in 0 .. MaxPages - 1 : AdapterResolve(i)
    \/ \E i \in 0 .. MaxPages - 1 : AdapterReject(i)
    \/ \E i \in 0 .. MaxPages - 1 : SecondStage(i)
    \/ \E i \in 0 .. MaxPages - 1 : Propagate(i)
    \/ Settle

\* The requests of the fair specification: the preflight checks pass, the
\* diagram has content, and the destination is "" or a file.
LiveInit ==
    /\ Init
    /\ javaSet
    /\ jarExists
    /\ hasContent
    /\ reqSavePath \in {EmptyPath, EmfPath}

FairSpec == LiveInit /\ [][Next]_vars /\ WF_vars(Handlers)

\* ------------------------------------------------------------------------
\* Properties
\* ------------------------------------------------------------------------

IsPrefix(a, b) == Len(a) <= Len(b) /\ SubSeq(b, 1, Len(a)) = a

\* the request is absent a destination: savePath undefined or ""
DestinationAbsent == ~Truthy(reqSavePath)

\* C1: when preflight passes, no process is killed and no adapter call
\* fails, the task resolves with exactly pageCount entries, entry i being
\* the adapter's output of page i: createTask does not throw, the task does
\* not reject, and a resolved task carries that list.
C1_ResolvesWithAllPages ==
    (PreflightError = 0 /\ killed = {} /\ failed = {}) =>
        /\ pc # "threw"
        /\ outcome.kind # "rejected"
        /\ outcome.kind = "resolved" =>
              /\ ~outcome.isNull
              /\ outcome.list =
                    [n \in 1 .. pageCount |-> AdapterOut(n - 1, dest[n - 1])]

\* C2: the diagram's content is written to page i+1's process only after
\* the adapter call of page i has resolved.
C2_WriteAfterConsumed ==
    \A i \in Pages : (i + 1) \in written => i \in consumed

\* C3: once any page's input is written or any adapter is awaited, all
\* pageCount processes are spawned and recorded in the process list, in page
\* order; and no step of the chain changes the process list or spawns an
\* engine process.
C3_SpawnedBeforeDrain ==
    /\ [](written \cup awaited # {} =>
            /\ processes = [n \in 1 .. pageCount |-> n - 1]
            /\ Len(spawnArgs) = pageCount
            /\ \A i \in Pages : procState[i] # "none")
    /\ [][pc = "returned" =>
            /\ processes' = processes
            /\ spawnArgs' = spawnArgs
            /\ \A i \in Pages : procState[i] # "none" <=> procState'[i] # "none"
         ]_vars

C3_Witness ==
    /\ pageCount >= 2
    /\ written # {}
    /\ Len(processes) = pageCount
    /\ procState[pageCount - 1] = "running"

\* C4: with no engine executable configured, or with the engine bundle
\* missing, the task returned by render and by getMapData is rejected with
\* the configuration message (5, or 6 with the install location) and no
\* process is ever spawned.
C4_PreflightRejects ==
    (pc # "start" /\ (~javaSet \/ ~jarExists)) =>
        /\ pc = "returnedEarly"
        /\ outcome.kind = "rejected"
        /\ outcome.err.kind = "string"
        /\ outcome.err.error =
              (IF ~javaSet THEN localize(5, <<>>)
               ELSE localize(6, <<extensionPath>>))
        /\ settles = 1
        /\ processes = <<>>
        /\ spawnArgs = <<>>
        /\ \A i \in 0 .. MaxPages - 1 : procState[i] = "none"

C4_Witness ==
    /\ pc = "returnedEarly"
    /\ javaSet
    /\ ~jarExists
    /\ taskType = "-pipemap"
    /\ outcome.kind = "rejected"

\* C5: a page whose process was killed before the chain reached it gets no
\* input, and the task then does not reject (no adapter or converter having
\* failed) and resolves with the void artifact set.
C5_KillResolvesVoid ==
    \A k \in skipped :
        /\ k \notin written
        /\ (failed = {} /\ convFailed = {}) => outcome.kind # "rejected"
        /\ outcome.kind = "resolved" => outcome.isNull

\* C6: when the adapter call of page k fails, the task does not resolve;
\* if it settles, it settles once, rejected with page k's error wrapped with
\* the diagram's title and carrying the adapter error's partial output; and
\* no page after k gets input or has its adapter awaited.
C6_AdapterFailureRejects ==
    \A k \in failed :
        /\ failed = {k}
        /\ outcome.kind # "resolved"
        /\ settles <= 1
        /\ outcome.kind = "rejected" =>
              /\ outcome.err.kind = "RenderError"
              /\ outcome.err.error = localize(10, <<title, StdErr(k)>>)
              /\ outcome.err.out = Partial(k)
        /\ \A j \in Pages : j > k => j \notin written /\ j \notin awaited
        /\ \A j \in Pages : j > k /\ link > j => outcome.kind # "resolved"

C6_Witness ==
    /\ pageCount >= 2
    /\ failed = {0}
    /\ hasContent
    /\ outcome.kind = "rejected"

\* C7: in a render to emf, every page whose primary output is confirmed
\* (its handler after the push has run) has a converter invocation whose
\* output path carries the extension emf.
C7_ConverterForEveryPage ==
    reqFormat = "emf" =>
        \A i \in staged :
            \E n \in 1 .. Len(converters) :
                /\ converters[n].page = i
                /\ ExtOf(converters[n].params.exportEmf) = "emf"

C9_DestinationDecidesMode ==
    \A i \in awaited :
        /\ DestinationAbsent =>
              /\ dest[i] = EmptyPath
              /\ AdapterOut(i, dest[i]) = Bytes(i)
        /\ ~DestinationAbsent =>
              /\ Truthy(dest[i])
              /\ dest[i].dir = reqSavePath.dir
              /\ dest[i].page = (IF pageCount = 1 THEN 0 ELSE i + 1)

\* C10: the process list never exceeds pageCount entries and every step
\* only appends to it, the steps of the second stage included.
C10_ProcessListAppendOnly ==
    /\ [](Len(processes) <= pageCount)
    /\ [][IsPrefix(processes, processes')]_vars

C10_Witness ==
    /\ Len(processes) = pageCount
    /\ converters # <<>>
    /\ asyncConv[0] = "running"

\* C11: the promise of a task that passed preflight is settled at most
\* once, and a rejection carries a RenderError: the title-decorated message
\* and the partial output of one page; no run rejects with another value.
C11_RejectsOnlyWithRenderError ==
    PreflightError = 0 =>
        /\ settles <= 1
        /\ outcome.kind = "rejected" =>
              /\ outcome.err.kind = "RenderError"
              /\ \E k \in Pages : outcome.err = RenderError(k)

\* C12: once a link found its page's process killed, no later page gets
\* input and no later page's adapter is awaited.
C12_KillStopsChain ==
    \A k \in skipped :
        \A j \in Pages : j > k => j \notin written /\ j \notin awaited

\* a step that adds an entry to the artifact list
AddsEntry == ~buffers'.isNull /\ Len(buffers'.list) > Len(buffers.list)

\* C13: after a kill short-circuit the artifact list is void and stays void:
\* the entries of the pages completed before are gone, no step adds an entry,
\* and a task that resolves resolves with the void state.
C13_KillVoidsResult ==
    /\ [](skipped # {} =>
            /\ buffers = [isNull |-> TRUE, list |-> <<>>]
            /\ outcome.kind = "resolved" =>
                  outcome.isNull /\ outcome.list = <<>>)
    /\ [][skipped # {} => ~AddsEntry /\ buffers'.isNull]_vars

C13_Witness ==
    /\ pageCount >= 2
    /\ 0 \in consumed
    /\ skipped # {}
    /\ outcome.kind = "resolved"

\* a step that voids the artifact list
Voids == buffers'.isNull /\ ~buffers.isNull

\* C14: process.killed of page i is read only when link i starts. The list
\* is voided only by the start of a link whose page is killed and not yet
\* awaited; a page that passed the check is never a skipped one; and with
\* the list not voided, a page killed after the check has its adapter's
\* output in the list when the adapter resolved, and its RenderError as the
\* chain's rejection when the adapter rejected.
C14_KillReadOnlyAtLinkStart ==
    /\ [][Voids =>
            /\ chainState = "fulfilled"
            /\ link \in killed
            /\ link \notin awaited
            /\ skipped' = skipped \cup {link}
            /\ awaited' = awaited]_vars
    /\ [](awaited \cap skipped = {})
    /\ [](\A i \in awaited \cap killed :
            /\ i \in consumed =>
                  /\ procState[i] = "ok"
                  /\ ~buffers.isNull =>
                        /\ Len(buffers.list) > i
                        /\ buffers.list[i + 1] = AdapterOut(i, dest[i])
            /\ i \in failed =>
                  /\ procState[i] = "err"
                  /\ chainErr = RenderError(i))

C14_Witness ==
    /\ 0 \in killed
    /\ 0 \in consumed
    /\ ~buffers.isNull
    /\ outcome.kind = "resolved"
    /\ Len(outcome.list) = pageCount

\* C15: in a render to emf with a destination, every engine process is
\* started with -tsvg, and every adapter call gets the destination's
\* directory and name with the extension svg and the page's index.
C15_EmfRendersSvg ==
    (reqFormat = "emf" /\ Truthy(reqSavePath)) =>
        /\ \A n \in 1 .. Len(spawnArgs) :
              /\ spawnArgs[n].t = "svg"
              /\ spawnArgs[n].imageindex = n - 1
        /\ \A i \in awaited :
              /\ ExtOf(dest[i]) = "svg"
              /\ dest[i].dir = reqSavePath.dir
              /\ PathParse(dest[i]).name = PathParse(reqSavePath).name
              /\ dest[i].page = (IF pageCount = 1 THEN 0 ELSE i + 1)

C15_Witness ==
    /\ reqFormat = "emf"
    /\ reqSavePath = PngPath
    /\ pageCount >= 2
    /\ Len(spawnArgs) = pageCount
    /\ awaited = Pages

\* C16: no inkscape process started for page i is still running when page
\* i+1 has got its input or while an adapter is awaited, and no two inkscape
\* processes of the task run at once.
C16_SuspensionsSequential ==
    /\ \A i \in Pages :
          asyncConv[i] = "running" =>
              /\ (i + 1) \notin written
              /\ chainState # "awaitAdapter"
    /\ Cardinality({i \in Pages : asyncConv[i] = "running"}) <= 1
    /\ chainState = "blocked" => asyncConv[link] # "running"

\* every variable but killed
allButKilled ==
    <<inputs, format, savePath, pc, index, origFormat, processes, spawnArgs,
      procState, link, chainState, chainErr, buffers, written, awaited, dest,
      consumed, failed, converters, convFailed, asyncConv, skipped, staged,
      outcome, settles>>

\* C18: the only step that changes a process's killed state is the caller's
\* kill of one process, which changes nothing else; no step of the chain, a
\* rejection and a kill short-circuit included, kills a process or takes one
\* off the process list, and a process that ends was not ended by a handler.
C18_OnlyCallerKills ==
    /\ [][killed' # killed =>
            /\ UNCHANGED allButKilled
            /\ \E p \in Pages : p \notin killed /\ killed' = killed \cup {p}
         ]_vars
    /\ [][(link' # link \/ chainState' # chainState \/ outcome' # outcome) =>
            /\ killed' = killed
            /\ processes' = processes
            /\ procState' = procState]_vars
    /\ [](pc = "returned" => processes = [n \in 1 .. pageCount |-> n - 1])

C18_Witness ==
    /\ pageCount = 3
    /\ failed = {0}
    /\ outcome.kind = "rejected"
    /\ killed = {1}
    /\ procState[2] = "running"
    /\ Len(processes) = 3

\* the inkscape invocations made for page i
RunsOf(i) == SelectSeq(converters, LAMBDA c : c.page = i)

\* C19: a page whose handler takes the emf branch has exactly two inkscape
\* invocations, a spawn and then an execFileSync with the same argument
\* vector; the spawned process is awaited by nothing (the task settles while
\* it may still run), and the process list holds the engine processes only.
C19_InkscapeStartedTwice ==
    /\ \A i \in Pages :
          /\ (i \in staged /\ origFormat[i + 1] = "emf") => RunsOf(i) # <<>>
          /\ RunsOf(i) # <<>> =>
                /\ Len(RunsOf(i)) = 2
                /\ RunsOf(i)[1].how = "spawn"
                /\ RunsOf(i)[2].how = "execFileSync"
                /\ RunsOf(i)[1].params = RunsOf(i)[2].params
                /\ asyncConv[i] # "none"
    /\ IsPrefix(processes, [n \in 1 .. pageCount |-> n - 1])

C19_Witness ==
    /\ 0 \in staged
    /\ Len(RunsOf(0)) = 2
    /\ asyncConv[0] = "running"
    /\ outcome.kind = "resolved"
    /\ Len(processes) = pageCount

\* the chain waits for the adapter of a page whose process has not ended
HungAdapter ==
    /\ pc = "returned"
    /\ chainState = "awaitAdapter"
    /\ procState[link] = "running"

\* the chain is inside an execFileSync call that has not returned
HungConverter == chainState = "blocked"

TaskPending == pc = "returned" /\ outcome.kind = "pending"

\* C17 as stated: a pending task with no handler ready to run is waiting
\* for an adapter call that has not settled (so the task settles exactly
\* when every awaited adapter call settles).
C17_PendingOnlyOnAdapter ==
    (TaskPending /\ ~ENABLED Handlers) => HungAdapter

\* C17, amended: a pending task with no handler ready to run is waiting for
\* an unsettled adapter call or is inside an execFileSync call that has not
\* returned; while an adapter call is unsettled the task stays pending and
\* no later page gets input; only the end of the page's process ends that
\* wait (there is no timeout); and under fair scheduling of the handlers a
\* returned task settles unless it stays in one of the two waits for ever.
C17_SettlesUnlessHung ==
    /\ []((TaskPending /\ ~ENABLED Handlers) =>
            (HungAdapter \/ HungConverter))
    /\ [](HungAdapter =>
            /\ outcome.kind = "pending"
            /\ \A j \in Pages : j > link => j \notin written /\ j \notin awaited)
    /\ [][(HungAdapter /\ ~HungAdapter') => procState'[link] # "running"]_vars
    /\ [](pc = "returned" =>
            (<>(outcome.kind # "pending") \/ <>[]HungAdapter
               \/ <>[]HungConverter))

C17_Witness ==
    /\ pageCount >= 2
    /\ hasContent
    /\ HungAdapter
    /\ link = 0
    /\ written = {0}

====
